---- MODULE Spec2Model ----
(***************************************************************************)
(* Model of the BiUH score calculator (src/src/App.jsx): the pure          *)
(* computation layer (parseNumber, isValidScore, isValidCredit,            *)
(* germanGrade, evaluation, gpaFromPercentage, calculateTotals), the       *)
(* derivation of the per-semester views and the handlers of the App        *)
(* component that change the transcript.                                   *)
(*                                                                         *)
(* JavaScript values are tagged records: the field t is the type tag.      *)
(* Finite numbers are exact rationals n/d in lowest terms (d > 0), which   *)
(* abstracts IEEE-754 rounding; NaN and the infinities are values of their *)
(* own.  A string that the code only compares or uses as a property key is *)
(* a record holding a TLA+ string; a string that the code parses (a score  *)
(* input) holds its sequence of characters.                                *)
(***************************************************************************)
EXTENDS Integers, Sequences, FiniteSets, TLC

VARIABLES
    semesters,            \* useState([initialSemester])          App.jsx:100
    activeSemesterId,     \* useState(initialSemester.id)         App.jsx:101
    recentlyAddedCourse,  \* useState(null)                       App.jsx:102
    nextId,               \* number of ids createId has handed out
    edits,                \* number of input events handled so far
    score,                \* argument of germanGrade / evaluation
    german,               \* germanGrade(score)
    evalInfo,             \* evaluation(score)
    average,              \* first argument of gpaFromPercentage
    gpa,                  \* gpaFromPercentage(average, 4) and (average, 5)
    courses,              \* argument of calculateTotals
    totals,               \* calculateTotals(courses)
    semester,             \* argument of the semesterViews mapper
    view                  \* the mapper's result for semester

vars == <<semesters, activeSemesterId, recentlyAddedCourse, nextId, edits,
          score, german, evalInfo, average, gpa, courses, totals,
          semester, view>>

transcriptVars == <<semesters, activeSemesterId, recentlyAddedCourse, nextId, edits>>
scoreVars == <<score, german, evalInfo, average, gpa>>
totalsVars == <<courses, totals>>
viewVars == <<semester, view>>

-----------------------------------------------------------------------------
(* JavaScript values *)

Null == [t |-> "null"]
Undefined == [t |-> "undefined"]
NaN == [t |-> "NaN"]
PosInfinity == [t |-> "Infinity"]
NegInfinity == [t |-> "-Infinity"]

Abs(i) == IF i < 0 THEN -i ELSE i

RECURSIVE GCD(_, _)
GCD(a, b) == IF b = 0 THEN a ELSE GCD(b, a % b)

\* the finite number n/d, in lowest terms with a positive denominator
Num(n, d) ==
    LET g == GCD(Abs(n), Abs(d))
        s == IF d < 0 THEN -1 ELSE 1
    IN  [t |-> "num", n |-> (s * n) \div g, d |-> (s * d) \div g]

NumInt(i) == Num(i, 1)

\* a string the code compares or uses as a key
Text(s) == [t |-> "str", s |-> s]

\* a string the code parses, as its characters
Chars(cs) == [t |-> "str", chars |-> cs]

IsNum(v) == v.t = "num"

IsNumeric(v) == v.t \in {"num", "Infinity", "-Infinity"}

\* ToNumber of the values the comparisons of the code meet
ToNumber(v) ==
    CASE v.t = "null" -> NumInt(0)
      [] v.t = "undefined" -> NaN
      [] OTHER -> v

\* x < y for two numeric values (finite or infinite)
NumLess(x, y) ==
    CASE x.t = "-Infinity" -> y.t # "-Infinity"
      [] x.t = "Infinity" -> FALSE
      [] y.t = "Infinity" -> TRUE
      [] y.t = "-Infinity" -> FALSE
      [] OTHER -> x.n * y.d < y.n * x.d

\* the relational operators: false as soon as an operand converts to NaN
JsLt(a, b) ==
    LET x == ToNumber(a)
        y == ToNumber(b)
    IN  IsNumeric(x) /\ IsNumeric(y) /\ NumLess(x, y)

JsGt(a, b) == JsLt(b, a)

JsGe(a, b) ==
    LET x == ToNumber(a)
        y == ToNumber(b)
    IN  IsNumeric(x) /\ IsNumeric(y) /\ ~NumLess(x, y)

JsLe(a, b) == JsGe(b, a)

\* the arithmetic operators on finite operands; anything else gives NaN
\* (the code only reaches them with finite numbers)
JsAdd(a, b) ==
    IF IsNum(a) /\ IsNum(b) THEN Num(a.n * b.d + b.n * a.d, a.d * b.d) ELSE NaN

JsSub(a, b) ==
    IF IsNum(a) /\ IsNum(b) THEN Num(a.n * b.d - b.n * a.d, a.d * b.d) ELSE NaN

JsMul(a, b) ==
    IF IsNum(a) /\ IsNum(b) THEN Num(a.n * b.n, a.d * b.d) ELSE NaN

JsDiv(a, b) ==
    IF IsNum(a) /\ IsNum(b)
    THEN IF b.n # 0 THEN Num(a.n * b.d, a.d * b.n)
         ELSE IF a.n = 0 THEN NaN
         ELSE IF a.n > 0 THEN PosInfinity ELSE NegInfinity
    ELSE NaN

MathMin(a, b) ==
    IF ~IsNumeric(a) \/ ~IsNumeric(b) THEN NaN
    ELSE IF NumLess(b, a) THEN b ELSE a

MathMax(a, b) ==
    IF ~IsNumeric(a) \/ ~IsNumeric(b) THEN NaN
    ELSE IF NumLess(a, b) THEN b ELSE a

NumberIsFinite(v) == v.t = "num"

\* ToBoolean: 0, NaN, null, undefined and '' are falsy, objects are truthy
Truthy(v) ==
    CASE v.t = "num" -> v.n # 0
      [] v.t \in {"null", "undefined", "NaN"} -> FALSE
      [] v.t = "str" -> v # Text("") /\ v # Chars(<<>>)
      [] OTHER -> TRUE

\* obj[prop] of a plain record value: undefined when the property is absent
Get(obj, prop) == IF prop \in DOMAIN obj THEN obj[prop] ELSE Undefined

-----------------------------------------------------------------------------
(* Constants of the program *)

NMAX == 100
NMIN == 60

CREDIT_STANDARD == [language |-> Num(5, 2), major |-> NumInt(5)]

Option(key, label, credit) ==
    [t |-> "object", key |-> Text(key), label |-> Text(label), credit |-> credit]

CHINESE_CULTURE_OPTIONS ==
    << Option("cc-1", "Chinese Culture I", NumInt(3)),
       Option("cc-2", "Chinese Culture II", NumInt(3)),
       Option("cc-3-1", "Chinese Culture III-1", NumInt(2)),
       Option("cc-3-2", "Chinese Culture III-2", NumInt(2)),
       Option("cc-3-3", "Chinese Culture III-3", NumInt(1)),
       Option("cc-4-1", "Chinese Culture IV-1", Num(5, 2)),
       Option("cc-4-2", "Chinese Culture IV-2", Num(5, 2)) >>

\* the property names every object literal inherits from Object.prototype
ObjectPrototypeKeys ==
    {"constructor", "toString", "toLocaleString", "valueOf", "hasOwnProperty",
     "isPrototypeOf", "propertyIsEnumerable", "__proto__"}

\* CULTURE_MAP[key]: the reduce fills an object literal {} with one own
\* property per option; a key it does not own is looked up on Object.prototype,
\* whose members are functions (or the prototype object itself) that carry
\* neither a label nor a credit
CULTURE_MAP(key) ==
    IF \E i \in DOMAIN CHINESE_CULTURE_OPTIONS : CHINESE_CULTURE_OPTIONS[i].key = key
    THEN LET i == CHOOSE j \in DOMAIN CHINESE_CULTURE_OPTIONS :
                      /\ CHINESE_CULTURE_OPTIONS[j].key = key
                      /\ \A k \in DOMAIN CHINESE_CULTURE_OPTIONS :
                            CHINESE_CULTURE_OPTIONS[k].key = key => k <= j
         IN  CHINESE_CULTURE_OPTIONS[i]
    ELSE IF key.t = "str" /\ key.s \in ObjectPrototypeKeys
    THEN [t |-> "builtin", member |-> key.s]
    ELSE Undefined

-----------------------------------------------------------------------------
(* ScoreParser and Validators *)

WhiteSpace == {" ", "\t", "\n", "\r"}

Digits == {"0", "1", "2", "3", "4", "5", "6", "7", "8", "9"}

DigitValue(c) ==
    CASE c = "0" -> 0 [] c = "1" -> 1 [] c = "2" -> 2 [] c = "3" -> 3
      [] c = "4" -> 4 [] c = "5" -> 5 [] c = "6" -> 6 [] c = "7" -> 7
      [] c = "8" -> 8 [] c = "9" -> 9

\* the first index from i on whose character is not in set (Len(cs) + 1 if none)
RECURSIVE SkipWhile(_, _, _)
SkipWhile(cs, i, set) ==
    IF i <= Len(cs) /\ cs[i] \in set THEN SkipWhile(cs, i + 1, set) ELSE i

\* the decimal value of the digits cs[i] .. cs[j - 1]
RECURSIVE DigitsValue(_, _, _)
DigitsValue(cs, i, j) ==
    IF j <= i THEN 0 ELSE DigitsValue(cs, i, j - 1) * 10 + DigitValue(cs[j - 1])

RECURSIVE Pow10(_)
Pow10(k) == IF k = 0 THEN 1 ELSE 10 * Pow10(k - 1)

StartsWith(cs, i, word) ==
    /\ Len(cs) >= i + Len(word) - 1
    /\ SubSeq(cs, i, i + Len(word) - 1) = word

\* Number.parseFloat: the longest prefix of the trimmed string that is a
\* decimal literal (sign, digits, fraction, exponent) or Infinity; NaN if none.
\* The scan is written as one operator per part of the literal.

Negate(v) ==
    CASE v.t = "num" -> Num(-v.n, v.d)
      [] v.t = "Infinity" -> NegInfinity
      [] v.t = "-Infinity" -> PosInfinity
      [] OTHER -> v

\* the exponent part, from the first exponent digit e2 on: mantissa * 10^(+-exp)
ScaleByExponent(cs, mantissa, expNeg, e2, expEnd) ==
    IF expEnd = e2 THEN mantissa
    ELSE IF expNeg THEN Num(mantissa.n, mantissa.d * Pow10(DigitsValue(cs, e2, expEnd)))
    ELSE Num(mantissa.n * Pow10(DigitsValue(cs, e2, expEnd)), mantissa.d)

ParseExponentSign(cs, mantissa, e1) ==
    IF e1 <= Len(cs) /\ cs[e1] \in {"+", "-"}
    THEN ScaleByExponent(cs, mantissa, cs[e1] = "-", e1 + 1, SkipWhile(cs, e1 + 1, Digits))
    ELSE ScaleByExponent(cs, mantissa, FALSE, e1, SkipWhile(cs, e1, Digits))

ParseExponent(cs, mantissa, p) ==
    IF p <= Len(cs) /\ cs[p] \in {"e", "E"}
    THEN ParseExponentSign(cs, mantissa, p + 1)
    ELSE mantissa

\* digits cs[i1 .. intEnd-1], then (if fracEnd > intEnd) a dot and the digits
\* cs[intEnd+1 .. fracEnd-1]
ParseMantissa(cs, i1, intEnd, fracEnd) ==
    IF fracEnd > intEnd
    THEN IF intEnd = i1 /\ fracEnd = intEnd + 1 THEN NaN
         ELSE ParseExponent(cs,
                  Num(DigitsValue(cs, i1, intEnd) * Pow10(fracEnd - intEnd - 1)
                          + DigitsValue(cs, intEnd + 1, fracEnd),
                      Pow10(fracEnd - intEnd - 1)),
                  fracEnd)
    ELSE IF intEnd = i1 THEN NaN
         ELSE ParseExponent(cs, Num(DigitsValue(cs, i1, intEnd), 1), intEnd)

ParseDecimal(cs, i1, intEnd) ==
    ParseMantissa(cs, i1, intEnd,
                  IF intEnd <= Len(cs) /\ cs[intEnd] = "."
                  THEN SkipWhile(cs, intEnd + 1, Digits) ELSE intEnd)

ParseUnsigned(cs, i1) ==
    IF StartsWith(cs, i1, <<"I", "n", "f", "i", "n", "i", "t", "y">>) THEN PosInfinity
    ELSE ParseDecimal(cs, i1, SkipWhile(cs, i1, Digits))

ParseSigned(cs, i0) ==
    IF i0 <= Len(cs) /\ cs[i0] = "-" THEN Negate(ParseUnsigned(cs, i0 + 1))
    ELSE ParseUnsigned(cs, IF i0 <= Len(cs) /\ cs[i0] = "+" THEN i0 + 1 ELSE i0)

ParseFloat(str) == ParseSigned(str.chars, SkipWhile(str.chars, 1, WhiteSpace))

parseNumber(value) ==
    IF value = Chars(<<>>) \/ value = Null \/ value = Undefined THEN Null
    ELSE LET number == ParseFloat(value)
         IN  IF NumberIsFinite(number) THEN number ELSE Null

\* isValidScore without the upper bound
isValidScore_NoUpperBound(s) == s # Null /\ JsGe(s, NumInt(0))

isValidScore(s) == s # Null /\ JsGe(s, NumInt(0)) /\ JsLe(s, NumInt(100))

isValidCredit(credit) == credit # Null /\ JsGt(credit, NumInt(0))

-----------------------------------------------------------------------------
(* ScaleConverter, Evaluator, GpaRescaler *)

\* germanGrade whose worst tier starts at NMIN itself
germanGrade_FailAtNmin(s) ==
    IF ~isValidScore(s) THEN Null
    ELSE IF JsLe(s, NumInt(NMIN)) THEN NumInt(5)
    ELSE LET value == JsAdd(NumInt(1),
                            JsMul(NumInt(3),
                                  JsDiv(JsSub(NumInt(NMAX), s),
                                        JsSub(NumInt(NMAX), NumInt(NMIN)))))
         IN  MathMin(NumInt(4), MathMax(NumInt(1), value))

\* germanGrade that interpolates below NMIN and clamps to [1, 5]
germanGrade_Interpolated(s) ==
    IF ~isValidScore(s) THEN Null
    ELSE LET value == JsAdd(NumInt(1),
                            JsMul(NumInt(3),
                                  JsDiv(JsSub(NumInt(NMAX), s),
                                        JsSub(NumInt(NMAX), NumInt(NMIN)))))
         IN  MathMin(NumInt(5), MathMax(NumInt(1), value))

germanGrade(s) ==
    IF ~isValidScore(s) THEN Null
    ELSE IF JsLt(s, NumInt(NMIN)) THEN NumInt(5)
    ELSE LET value == JsAdd(NumInt(1),
                            JsMul(NumInt(3),
                                  JsDiv(JsSub(NumInt(NMAX), s),
                                        JsSub(NumInt(NMAX), NumInt(NMIN)))))
         IN  MathMin(NumInt(4), MathMax(NumInt(1), value))

\* the labels keep their English half only
Evaluation(label, grade) ==
    [t |-> "object", label |-> Text(label), grade |-> NumInt(grade)]

\* evaluation whose first threshold is exclusive
evaluation_ExclusiveTop(s) ==
    IF ~isValidScore(s) THEN Null
    ELSE IF JsGt(s, NumInt(93)) THEN Evaluation("Very Good", 1)
    ELSE IF JsGe(s, NumInt(80)) THEN Evaluation("Good", 2)
    ELSE IF JsGe(s, NumInt(67)) THEN Evaluation("Satisfactory", 3)
    ELSE IF JsGe(s, NumInt(60)) THEN Evaluation("Sufficient", 4)
    ELSE Evaluation("Insufficient", 5)

evaluation(s) ==
    IF ~isValidScore(s) THEN Null
    ELSE IF JsGe(s, NumInt(93)) THEN Evaluation("Very Good", 1)
    ELSE IF JsGe(s, NumInt(80)) THEN Evaluation("Good", 2)
    ELSE IF JsGe(s, NumInt(67)) THEN Evaluation("Satisfactory", 3)
    ELSE IF JsGe(s, NumInt(60)) THEN Evaluation("Sufficient", 4)
    ELSE Evaluation("Insufficient", 5)

\* gpaFromPercentage without the clamp
gpaFromPercentage_NoClamp(s, sc) ==
    IF s = Null \/ s = Undefined \/ ~NumberIsFinite(s) THEN Null
    ELSE JsMul(JsDiv(s, NumInt(NMAX)), sc)

gpaFromPercentage(s, sc) ==
    IF s = Null \/ s = Undefined \/ ~NumberIsFinite(s) THEN Null
    ELSE LET clamped == MathMin(NumInt(NMAX), MathMax(NumInt(0), s))
         IN  JsMul(JsDiv(clamped, NumInt(NMAX)), sc)

-----------------------------------------------------------------------------
(* Aggregator *)

\* list.reduce((sum, item) => sum + term(item), initial), given the terms
RECURSIVE ReduceSum(_, _)
ReduceSum(terms, initial) ==
    IF terms = <<>> THEN initial ELSE ReduceSum(Tail(terms), JsAdd(initial, Head(terms)))

Countable(course) == isValidScore(course.score) /\ isValidCredit(course.credit)

SumCredits(validCourses) ==
    ReduceSum([i \in DOMAIN validCourses |-> validCourses[i].credit], NumInt(0))

SumWeightedScore(validCourses) ==
    ReduceSum([i \in DOMAIN validCourses |->
                  JsMul(validCourses[i].score, validCourses[i].credit)],
              NumInt(0))

SumWeightedGerman(validCourses) ==
    ReduceSum([i \in DOMAIN validCourses |->
                  JsMul(germanGrade(validCourses[i].score), validCourses[i].credit)],
              NumInt(0))

\* the object calculateTotals returns, from its four constants
TotalsOf(validCourses, totalCredits, weightedScore, weightedGerman) ==
    [totalCredits |-> totalCredits,
     weightedScore |-> IF Truthy(totalCredits)
                       THEN JsDiv(weightedScore, totalCredits) ELSE Null,
     weightedGerman |-> IF Truthy(totalCredits)
                        THEN JsDiv(weightedGerman, totalCredits) ELSE Null,
     count |-> NumInt(Len(validCourses))]

TotalsOfValid(validCourses) ==
    TotalsOf(validCourses, SumCredits(validCourses), SumWeightedScore(validCourses),
             SumWeightedGerman(validCourses))

\* calculateTotals with a filter that forgets isValidCredit
calculateTotals_ScoreFilterOnly(list) ==
    TotalsOfValid(SelectSeq(list, LAMBDA course : isValidScore(course.score)))

\* calculateTotals that divides without looking at totalCredits
calculateTotals_Unguarded(list) ==
    [totalCredits |-> SumCredits(SelectSeq(list, Countable)),
     weightedScore |-> JsDiv(SumWeightedScore(SelectSeq(list, Countable)),
                             SumCredits(SelectSeq(list, Countable))),
     weightedGerman |-> JsDiv(SumWeightedGerman(SelectSeq(list, Countable)),
                              SumCredits(SelectSeq(list, Countable))),
     count |-> NumInt(Len(SelectSeq(list, Countable)))]

calculateTotals(list) == TotalsOfValid(SelectSeq(list, Countable))

-----------------------------------------------------------------------------
(* CourseCatalog lookup and the derivation of a semester's view *)

\* the callback of semesters.map in the semesterViews memo, one operator per
\* constant it declares

LanguageCourses(sem) ==
    << [id |-> Text("english"), name |-> Text("English"),
        credit |-> CREDIT_STANDARD.language,
        score |-> parseNumber(sem.languageScores.english)],
       [id |-> Text("german"), name |-> Text("German"),
        credit |-> CREDIT_STANDARD.language,
        score |-> parseNumber(sem.languageScores.german)] >>

MajorCourseRows(sem) ==
    [i \in DOMAIN sem.majorCourses |->
        [id |-> sem.majorCourses[i].id,
         name |-> sem.majorCourses[i].name,
         score |-> sem.majorCourses[i].score,
         scoreValue |-> parseNumber(sem.majorCourses[i].score)]]

\* CULTURE_MAP[courseKey] || CHINESE_CULTURE_OPTIONS[0]
OrFirstOption(found) == IF Truthy(found) THEN found ELSE CHINESE_CULTURE_OPTIONS[1]

CultureOption(sem) == OrFirstOption(CULTURE_MAP(Get(sem.cultureCourse, "courseKey")))

CultureCourseOf(sem, cultureOption) ==
    [courseKey |-> Get(sem.cultureCourse, "courseKey"),
     score |-> sem.cultureCourse.score,
     name |-> Get(cultureOption, "label"),
     credit |-> Get(cultureOption, "credit"),
     scoreValue |-> parseNumber(sem.cultureCourse.score)]

CultureCourse(sem) == CultureCourseOf(sem, CultureOption(sem))

AllCourses(languageCourses, majorCourseRows, cultureCourse) ==
    languageCourses
    \o [i \in DOMAIN majorCourseRows |->
            [name |-> majorCourseRows[i].name,
             credit |-> CREDIT_STANDARD.major,
             score |-> majorCourseRows[i].scoreValue]]
    \o << [name |-> cultureCourse.name,
           credit |-> cultureCourse.credit,
           score |-> cultureCourse.scoreValue] >>

ViewOf(sem, languageCourses, majorCourseRows, cultureCourse, allCourses) ==
    [id |-> sem.id,
     languageCourses |-> languageCourses,
     majorCourseRows |-> majorCourseRows,
     cultureCourse |-> cultureCourse,
     totals |-> calculateTotals(allCourses),
     allCourses |-> allCourses]

ViewOfParts(sem, languageCourses, majorCourseRows, cultureCourse) ==
    ViewOf(sem, languageCourses, majorCourseRows, cultureCourse,
           AllCourses(languageCourses, majorCourseRows, cultureCourse))

SemesterView(sem) ==
    ViewOfParts(sem, LanguageCourses(sem), MajorCourseRows(sem), CultureCourse(sem))

\* semesters.map(callback)
ViewsOf(list) == [i \in DOMAIN list |-> SemesterView(list[i])]

semesterViews == ViewsOf(semesters)

-----------------------------------------------------------------------------
(* TranscriptModel: the state of the App component and its handlers *)

\* createId hands out an id never used before: the nextId-th one
createSemester(semId, courseId) ==
    [id |-> semId,
     languageScores |-> [english |-> Chars(<<>>), german |-> Chars(<<>>)],
     majorCourses |-> << [id |-> courseId, name |-> Text(""), score |-> Chars(<<>>)] >>,
     cultureCourse |-> [courseKey |-> CHINESE_CULTURE_OPTIONS[1].key,
                        score |-> Chars(<<>>)]]

\* semesters.findIndex, 1-based; 0 stands for JavaScript's -1
FindIndex(list, id) ==
    IF \E i \in DOMAIN list : list[i].id = id
    THEN CHOOSE i \in DOMAIN list :
            /\ list[i].id = id
            /\ \A j \in DOMAIN list : list[j].id = id => i <= j
    ELSE 0

\* Math.max(0, findIndex(...)), shifted to the 1-based indices of sequences
activeIndex ==
    IF FindIndex(semesters, activeSemesterId) >= 1
    THEN FindIndex(semesters, activeSemesterId) ELSE 1

activeSemester == semesters[activeIndex]

activeView == semesterViews[activeIndex]

\* lists.flatMap(list => list)
RECURSIVE Flatten(_)
Flatten(lists) == IF lists = <<>> THEN <<>> ELSE Head(lists) \o Flatten(Tail(lists))

\* cumulative averages taken as the plain mean of the semesters' averages
overallTotals_MeanOfAverages ==
    LET each == [i \in DOMAIN semesterViews |-> semesterViews[i].totals]
        counted == SelectSeq(each, LAMBDA t : t.weightedScore # Null)
    IN  [totalCredits |->
             ReduceSum([i \in DOMAIN each |-> each[i].totalCredits], NumInt(0)),
         weightedScore |->
             IF counted = <<>> THEN Null
             ELSE JsDiv(ReduceSum([i \in DOMAIN counted |-> counted[i].weightedScore],
                                  NumInt(0)),
                        NumInt(Len(counted))),
         weightedGerman |->
             IF counted = <<>> THEN Null
             ELSE JsDiv(ReduceSum([i \in DOMAIN counted |-> counted[i].weightedGerman],
                                  NumInt(0)),
                        NumInt(Len(counted))),
         count |-> ReduceSum([i \in DOMAIN each |-> each[i].count], NumInt(0))]

overallTotals ==
    calculateTotals(Flatten([i \in DOMAIN semesterViews |-> semesterViews[i].allCourses]))

overallGpa4 == gpaFromPercentage(overallTotals.weightedScore, NumInt(4))

overallGpa5 == gpaFromPercentage(overallTotals.weightedScore, NumInt(5))

\* { ...object, ...patch }
Spread(object, patch) ==
    [f \in DOMAIN object \cup DOMAIN patch |->
        IF f \in DOMAIN patch THEN patch[f] ELSE object[f]]

\* updateSemester that applies the updater to every semester
updateSemester_Every(prev, id, updater) ==
    [i \in DOMAIN prev |-> updater[prev[i]]]

\* the new value of semesters after updateSemester(id, updater); the updater is
\* a function on the semesters of prev
updateSemester(prev, id, updater) ==
    [i \in DOMAIN prev |-> IF prev[i].id = id THEN updater[prev[i]] ELSE prev[i]]

\* the semesters an updater can be handed
Stored == { semesters[i] : i \in DOMAIN semesters }

\* bounds of the model
MaxIds == 5
MaxEdits == 1

\* what the user can type into a score input (type="number")
InputScores ==
    { Chars(<<>>), Chars(<<"8", "5">>), Chars(<<"5", "9", ".", "5">>),
      Chars(<<"1", "0", "5">>) }

\* what the user can type into a course-name input
InputNames == { Text("Algebra") }

\* the values of the options of the culture-course select
SelectKeys == { CHINESE_CULTURE_OPTIONS[i].key : i \in DOMAIN CHINESE_CULTURE_OPTIONS }

TranscriptInit ==
    /\ semesters = << createSemester(1, 2) >>
    /\ activeSemesterId = 1
    /\ recentlyAddedCourse = Null
    /\ nextId = 2
    /\ edits = 0

\* the tab button of a semester
setActiveSemesterId(id) ==
    /\ activeSemesterId' = id
    /\ UNCHANGED <<semesters, recentlyAddedCourse, nextId, edits>>

\* addSemester that leaves the active semester as it is
addSemester_KeepActive ==
    /\ nextId + 2 <= MaxIds
    /\ semesters' = Append(semesters, createSemester(nextId + 1, nextId + 2))
    /\ nextId' = nextId + 2
    /\ UNCHANGED <<activeSemesterId, recentlyAddedCourse, edits>>

\* addSemester that forgets the previous semesters
addSemester_Replace ==
    /\ nextId + 2 <= MaxIds
    /\ semesters' = << createSemester(nextId + 1, nextId + 2) >>
    /\ activeSemesterId' = nextId + 1
    /\ nextId' = nextId + 2
    /\ UNCHANGED <<recentlyAddedCourse, edits>>

addSemester ==
    /\ nextId + 2 <= MaxIds
    /\ LET newSemester == createSemester(nextId + 1, nextId + 2)
       IN  /\ semesters' = Append(semesters, newSemester)
           /\ activeSemesterId' = newSemester.id
    /\ nextId' = nextId + 2
    /\ UNCHANGED <<recentlyAddedCourse, edits>>

updateLanguageScore(semesterId, field, value) ==
    /\ edits < MaxEdits
    /\ edits' = edits + 1
    /\ semesters' = updateSemester(semesters, semesterId,
            [sem \in Stored |-> [sem EXCEPT !.languageScores =
                            Spread(sem.languageScores, field :> value)]])
    /\ UNCHANGED <<activeSemesterId, recentlyAddedCourse, nextId>>

updateMajorCourse(semesterId, courseId, patch) ==
    /\ edits < MaxEdits
    /\ edits' = edits + 1
    /\ semesters' = updateSemester(semesters, semesterId,
            [sem \in Stored |-> [sem EXCEPT !.majorCourses =
                [i \in DOMAIN sem.majorCourses |->
                    IF sem.majorCourses[i].id = courseId
                    THEN Spread(sem.majorCourses[i], patch)
                    ELSE sem.majorCourses[i]]]])
    /\ UNCHANGED <<activeSemesterId, recentlyAddedCourse, nextId>>

addMajorCourse(semesterId) ==
    /\ nextId + 1 <= MaxIds
    /\ LET newCourseId == nextId + 1
       IN  /\ semesters' = updateSemester(semesters, semesterId,
                [sem \in Stored |-> [sem EXCEPT !.majorCourses =
                    sem.majorCourses \o
                        << [id |-> newCourseId, name |-> Text(""), score |-> Chars(<<>>)] >>]])
           /\ recentlyAddedCourse' = [semesterId |-> semesterId, courseId |-> newCourseId]
    /\ nextId' = nextId + 1
    /\ UNCHANGED <<activeSemesterId, edits>>

removeMajorCourse(semesterId, courseId) ==
    /\ semesters' = updateSemester(semesters, semesterId,
            [sem \in Stored |-> [sem EXCEPT !.majorCourses =
                SelectSeq(sem.majorCourses, LAMBDA course : course.id # courseId)]])
    /\ UNCHANGED <<activeSemesterId, recentlyAddedCourse, nextId, edits>>

updateCultureCourse(semesterId, patch) ==
    /\ edits < MaxEdits
    /\ edits' = edits + 1
    /\ semesters' = updateSemester(semesters, semesterId,
            [sem \in Stored |-> [sem EXCEPT !.cultureCourse = Spread(sem.cultureCourse, patch)]])
    /\ UNCHANGED <<activeSemesterId, recentlyAddedCourse, nextId>>

\* the effect on recentlyAddedCourse: its timeout clears the marker
clearRecentlyAddedCourse ==
    /\ recentlyAddedCourse # Null
    /\ recentlyAddedCourse' = Null
    /\ UNCHANGED <<semesters, activeSemesterId, nextId, edits>>

\* activeView.languageCourses and activeView.majorCourseRows: the rows the page
\* renders, which are these two parts of the active semester's view
activeLanguageCourses == LanguageCourses(activeSemester)

activeMajorCourseRows == MajorCourseRows(activeSemester)

\* the events of the rendered page: every handler is called as its element calls it
ClickTab == \E i \in DOMAIN semesters : setActiveSemesterId(semesters[i].id)

ClickAddSemester == addSemester

ChangeLanguageScore ==
    LET rows == activeLanguageCourses
        semesterId == activeSemester.id
    IN  \E i \in DOMAIN rows, value \in InputScores :
            updateLanguageScore(semesterId, rows[i].id.s, value)

ChangeMajorName ==
    LET rows == activeMajorCourseRows
        semesterId == activeSemester.id
    IN  \E i \in DOMAIN rows, value \in InputNames :
            updateMajorCourse(semesterId, rows[i].id, "name" :> value)

ChangeMajorScore ==
    LET rows == activeMajorCourseRows
        semesterId == activeSemester.id
    IN  \E i \in DOMAIN rows, value \in InputScores :
            updateMajorCourse(semesterId, rows[i].id, "score" :> value)

\* a delete button that is never disabled
ClickRemoveMajorCourse_AlwaysEnabled ==
    LET rows == activeMajorCourseRows
        semesterId == activeSemester.id
    IN  \E i \in DOMAIN rows : removeMajorCourse(semesterId, rows[i].id)

\* the delete button is disabled while the semester shows a single major course
ClickRemoveMajorCourse ==
    LET rows == activeMajorCourseRows
        semesterId == activeSemester.id
    IN  /\ Len(rows) # 1
        /\ \E i \in DOMAIN rows : removeMajorCourse(semesterId, rows[i].id)

ClickAddMajorCourse == addMajorCourse(activeSemester.id)

ChangeCultureKey ==
    \E key \in SelectKeys : updateCultureCourse(activeSemester.id, "courseKey" :> key)

ChangeCultureScore ==
    \E value \in InputScores : updateCultureCourse(activeSemester.id, "score" :> value)

TranscriptNext ==
    \/ ClickTab
    \/ ClickAddSemester
    \/ ChangeLanguageScore
    \/ ChangeMajorName
    \/ ChangeMajorScore
    \/ ClickRemoveMajorCourse
    \/ ClickAddMajorCourse
    \/ ChangeCultureKey
    \/ ChangeCultureScore
    \/ clearRecentlyAddedCourse

-----------------------------------------------------------------------------
(* The pure functions, applied to inputs drawn from bounded sets *)

\* scores are the multiples of 1/ScoreDen from -ScoreMargin to 100 + ScoreMargin
ScoreDen == 2
ScoreMargin == 3

FiniteScores ==
    { Num(k, ScoreDen) : k \in (-ScoreMargin * ScoreDen) .. ((NMAX + ScoreMargin) * ScoreDen) }

\* what parseNumber can hand to a row: null or a finite number
ParsedScores == {Null} \cup FiniteScores

\* the arguments gpaFromPercentage tells apart
Averages == {Null, Undefined, NaN, PosInfinity, NegInfinity} \cup FiniteScores

ScoreInit ==
    /\ score = Null
    /\ german = germanGrade(Null)
    /\ evalInfo = evaluation(Null)
    /\ average = Null
    /\ gpa = [scale4 |-> gpaFromPercentage(Null, NumInt(4)),
              scale5 |-> gpaFromPercentage(Null, NumInt(5))]

\* a table row renders a parsed score: germanGrade and evaluation of it
RenderRow(value) ==
    /\ score' = value
    /\ german' = germanGrade(value)
    /\ evalInfo' = evaluation(value)
    /\ UNCHANGED <<average, gpa>>

\* the two GPA figures of an average
RenderGpa(value) ==
    /\ average' = value
    /\ gpa' = [scale4 |-> gpaFromPercentage(value, NumInt(4)),
               scale5 |-> gpaFromPercentage(value, NumInt(5))]
    /\ UNCHANGED <<score, german, evalInfo>>

\* course records: every way a score or a credit passes or fails its validator
MaxCourses == 3

RecordScores == {Null, NumInt(-1), NumInt(50), NumInt(90), NumInt(101)}

RecordCredits == {Null, NumInt(0), NumInt(-1), CREDIT_STANDARD.language, CREDIT_STANDARD.major}

CourseRecords ==
    { [name |-> Text(""), credit |-> c, score |-> s] : c \in RecordCredits, s \in RecordScores }

TotalsInit ==
    /\ courses = <<>>
    /\ totals = calculateTotals(<<>>)

\* one more record in the list handed to calculateTotals
AggregateOneMore(record) ==
    /\ Len(courses) < MaxCourses
    /\ courses' = Append(courses, record)
    /\ totals' = calculateTotals(Append(courses, record))

\* stored semesters: any culture-course key, known to the catalog or not
StoredKeys ==
    SelectKeys \cup { Text("cc-5"), Text(""), Text("constructor"), Text("toString"),
                      Text("__proto__") }

StoredCultureCourses ==
    { [courseKey |-> k, score |-> v] : k \in StoredKeys, v \in InputScores }
        \cup { [score |-> v] : v \in InputScores }

ViewInit ==
    /\ semester = createSemester(1, 2)
    /\ view = SemesterView(createSemester(1, 2))

\* the derivation of a semester whose major course and culture course are as stored
DeriveView(culture, value) ==
    /\ semester' = [createSemester(1, 2) EXCEPT
                        !.cultureCourse = culture,
                        !.majorCourses[1].score = value]
    /\ view' = SemesterView(semester')

\* transcripts as the page can leave them: up to MaxSemesters semesters, each
\* with an English score, one major-course score and a culture course entered
MaxSemesters == 2

EnglishEntries == { Chars(<<>>), Chars(<<"8", "5">>), Chars(<<"1", "0", "5">>) }

MajorEntries == { Chars(<<>>), Chars(<<"5", "9", ".", "5">>), Chars(<<"8", "5">>) }

CultureEntries ==
    { [courseKey |-> CHINESE_CULTURE_OPTIONS[1].key, score |-> Chars(<<>>)],
      [courseKey |-> CHINESE_CULTURE_OPTIONS[5].key, score |-> Chars(<<"8", "5">>)] }

SemesterEntries == [english : EnglishEntries, major : MajorEntries, culture : CultureEntries]

\* the k-th semester of a transcript, with what was entered in it
EnteredSemester(k, entry) ==
    [createSemester(2 * k - 1, 2 * k) EXCEPT
        !.languageScores.english = entry.english,
        !.majorCourses[1].score = entry.major,
        !.cultureCourse = entry.culture]

Transcripts ==
    UNION { { [k \in 1 .. n |-> EnteredSemester(k, entries[k])] :
                  entries \in [1 .. n -> SemesterEntries] } : n \in 1 .. MaxSemesters }

OverallInit ==
    /\ semesters \in Transcripts
    /\ activeSemesterId = 1
    /\ recentlyAddedCourse = Null
    /\ nextId = 2 * Len(semesters)
    /\ edits = 0

\* the cumulative panel: the records of all semesters, their totals, the two GPAs
RenderOverall ==
    /\ courses' = Flatten([i \in DOMAIN semesterViews |-> semesterViews[i].allCourses])
    /\ totals' = overallTotals
    /\ average' = overallTotals.weightedScore
    /\ gpa' = [scale4 |-> overallGpa4, scale5 |-> overallGpa5]

-----------------------------------------------------------------------------
(* Specifications *)

Init == TranscriptInit /\ ScoreInit /\ TotalsInit /\ ViewInit

\* the transcript under the events of the page
Next == TranscriptNext /\ UNCHANGED <<scoreVars, totalsVars, viewVars>>

Spec == Init /\ [][Next]_vars

\* germanGrade and evaluation over the parsed scores
NextScore ==
    /\ \E value \in ParsedScores : RenderRow(value)
    /\ UNCHANGED <<transcriptVars, totalsVars, viewVars>>

SpecScore == Init /\ [][NextScore]_vars

\* gpaFromPercentage over the averages
NextGpa ==
    /\ \E value \in Averages : RenderGpa(value)
    /\ UNCHANGED <<transcriptVars, totalsVars, viewVars>>

SpecGpa == Init /\ [][NextGpa]_vars

\* calculateTotals over the lists of course records
NextTotals ==
    /\ \E record \in CourseRecords : AggregateOneMore(record)
    /\ UNCHANGED <<transcriptVars, scoreVars, viewVars>>

SpecTotals == Init /\ [][NextTotals]_vars

\* the derivation over the stored semesters
NextView ==
    /\ \E culture \in StoredCultureCourses, value \in InputScores : DeriveView(culture, value)
    /\ UNCHANGED <<transcriptVars, scoreVars, totalsVars>>

SpecView == Init /\ [][NextView]_vars

\* the cumulative totals and GPAs over the transcripts
InitOverall == OverallInit /\ ScoreInit /\ TotalsInit /\ ViewInit

NextOverall ==
    /\ RenderOverall
    /\ UNCHANGED <<transcriptVars, score, german, evalInfo, viewVars>>

SpecOverall == InitOverall /\ [][NextOverall]_vars

-----------------------------------------------------------------------------
(* Properties.  The predicates below state the claims in their own terms,   *)
(* with integer arithmetic on numerators and denominators.                  *)

\* lo <= v <= hi for a finite number v and integers lo, hi
InRange(v, lo, hi) == v.t = "num" /\ lo * v.d <= v.n /\ v.n <= hi * v.d

\* v < x and v > x for a finite number v and an integer x
Below(v, x) == v.t = "num" /\ v.n < x * v.d
Above(v, x) == v.t = "num" /\ v.n > x * v.d

\* a <= b for two finite numbers
Leq(a, b) == a.t = "num" /\ b.t = "num" /\ a.n * b.d <= b.n * a.d

\* a score that is null or outside [0, 100]; a credit that is null or not positive
ScoreUnusable(v) == v = Null \/ Below(v, 0) \/ Above(v, 100)
CreditUnusable(c) == c = Null \/ (c.t = "num" /\ c.n <= 0)
CountableRecord(r) == ~ScoreUnusable(r.score) /\ ~CreditUnusable(r.credit)

\* 1 + 3 * (100 - v) / 40
LinearGrade(v) == Num(40 * v.d + 3 * (100 * v.d - v.n), 40 * v.d)

\* the sum of terms[i] over the countable records list[i] among the first n
RECURSIVE SumOverCountable(_, _, _)
SumOverCountable(terms, list, n) ==
    IF n = 0 THEN NumInt(0)
    ELSE JsAdd(SumOverCountable(terms, list, n - 1),
               IF CountableRecord(list[n]) THEN terms[n] ELSE NumInt(0))

\* the secondary grade of a valid score: 5 below 60, linear from 60 on
GradeOfValid(v) == IF Below(v, 60) THEN NumInt(5) ELSE LinearGrade(v)

C1_State ==
    LET n == Len(courses)
        credits == SumOverCountable([i \in 1 .. n |-> courses[i].credit], courses, n)
        points == SumOverCountable(
                      [i \in 1 .. n |-> JsMul(courses[i].score, courses[i].credit)],
                      courses, n)
        grades == SumOverCountable(
                      [i \in 1 .. n |->
                          IF CountableRecord(courses[i])
                          THEN JsMul(GradeOfValid(courses[i].score), courses[i].credit)
                          ELSE NumInt(0)],
                      courses, n)
    IN  /\ totals.totalCredits = credits
        /\ totals.count = NumInt(Cardinality({i \in 1 .. n : CountableRecord(courses[i])}))
        /\ credits.n # 0 =>
              /\ totals.weightedScore = Num(points.n * credits.d, points.d * credits.n)
              /\ totals.weightedGerman = Num(grades.n * credits.d, grades.d * credits.n)

C1_Step ==
    (/\ Len(courses') = Len(courses) + 1
     /\ ~CountableRecord(courses'[Len(courses')]))
        => totals' = totals

\* C1: calculateTotals computes totalCredits, count, weightedScore and
\* weightedGerman over the countable records only (valid score, valid credit),
\* and a record that is not countable changes none of the four outputs.
C1_AggregateOverCountable == [] C1_State /\ [][C1_Step]_vars

\* two countable records and one that is not, aggregated
C1_Witness ==
    /\ Len(courses) = 3
    /\ \E i \in 1 .. 3 : ~CountableRecord(courses[i])
    /\ totals.count = NumInt(2)
    /\ totals.weightedScore # Null

\* C2: a list without any countable record gives exactly
\* {totalCredits: 0, weightedScore: null, weightedGerman: null, count: 0}.
C2_NoCountableGivesNull ==
    (\A i \in DOMAIN courses : ~CountableRecord(courses[i]))
        => totals = [totalCredits |-> NumInt(0), weightedScore |-> Null,
                     weightedGerman |-> Null, count |-> NumInt(0)]

\* a non-empty list of records that are all excluded
C2_Witness ==
    /\ Len(courses) >= 2
    /\ \A i \in DOMAIN courses : ~CountableRecord(courses[i])
    /\ \E i \in DOMAIN courses : ScoreUnusable(courses[i].score)
    /\ \E i \in DOMAIN courses : CreditUnusable(courses[i].credit)
    /\ totals.weightedScore = Null

C3_State ==
    InRange(score, 60, 100) =>
        /\ german = LinearGrade(score)
        /\ InRange(german, 1, 4)
        /\ score = NumInt(100) => german = NumInt(1)
        /\ score = NumInt(60) => german = NumInt(4)

C3_Step ==
    (InRange(score, 60, 100) /\ InRange(score', 60, 100) /\ Leq(score, score'))
        => Leq(german', german)

\* C3: on [60, 100] germanGrade is 1 + 3 * (100 - s) / 40, lies in [1, 4], does
\* not increase when the score increases, and is 1 at 100 and 4 at 60.
C3_LinearOnPassingScores == [] C3_State /\ [][C3_Step]_vars

\* the row of the lowest passing score
C3_Witness == score = NumInt(60) /\ german = NumInt(4)

\* C4: a valid score below 60 has germanGrade exactly 5, and no valid score
\* has a germanGrade strictly between 4 and 5.
C4_FailingScoresSaturate ==
    /\ (InRange(score, 0, 100) /\ Below(score, 60)) => german = NumInt(5)
    /\ InRange(score, 0, 100) => ~(Above(german, 4) /\ Below(german, 5))

\* the row of a score just below 60
C4_Witness == Below(score, 60) /\ Above(score, 59) /\ german = NumInt(5)

\* the tier the thresholds 93, 80, 67, 60 give
TierOf(v) ==
    IF ~Below(v, 93) THEN 1
    ELSE IF ~Below(v, 80) THEN 2
    ELSE IF ~Below(v, 67) THEN 3
    ELSE IF ~Below(v, 60) THEN 4
    ELSE 5

C5_State == InRange(score, 0, 100) => evalInfo.grade = NumInt(TierOf(score))

C5_Step ==
    (InRange(score, 0, 100) /\ InRange(score', 0, 100) /\ Leq(score, score'))
        => Leq(evalInfo'.grade, evalInfo.grade)

\* C5: evaluation gives tier 1 from 93, tier 2 on [80, 93), tier 3 on [67, 80),
\* tier 4 on [60, 67) and tier 5 below 60, and the tier does not increase when
\* the score increases.
C5_TiersByThreshold == [] C5_State /\ [][C5_Step]_vars

\* the row of the lowest score of tier 1
C5_Witness == score = NumInt(93) /\ evalInfo.grade = NumInt(1)

\* C6: a score that is null, below 0 or above 100 has neither a germanGrade
\* nor an evaluation: both are null.
C6_InvalidScoreGivesNull ==
    ScoreUnusable(score) => german = Null /\ evalInfo = Null

\* the row of a score above 100
C6_Witness == Above(score, 100) /\ german = Null /\ evalInfo = Null

\* the average clamped to [0, 100]
Clamped(v) == IF Below(v, 0) THEN NumInt(0) ELSE IF Above(v, 100) THEN NumInt(100) ELSE v

C7_Scale(g, target) ==
    /\ average.t # "num" => g = Null
    /\ average.t = "num" =>
          /\ g = Num(Clamped(average).n * target, Clamped(average).d * 100)
          /\ InRange(g, 0, target)
          /\ Above(average, 100) => g = NumInt(target)
          /\ Below(average, 0) => g = NumInt(0)

\* C7: gpaFromPercentage is null for a null, undefined or non-finite average and
\* clamp(a, 0, 100) / 100 * t otherwise: in [0, t], t above 100 and 0 below 0.
C7_RescaleClamps == C7_Scale(gpa.scale4, 4) /\ C7_Scale(gpa.scale5, 5)

\* an average above 100 rescaled to the top of both scales
C7_Witness ==
    Above(average, 100) /\ gpa.scale4 = NumInt(4) /\ gpa.scale5 = NumInt(5)

\* C8: a stored culture-course key outside the catalog resolves to the first
\* catalog entry ('Chinese Culture I', credit 3), so the derived culture record
\* always carries the name and the credit of one catalog entry.
C8_UnknownKeyFallsBack ==
    /\ Get(semester.cultureCourse, "courseKey") \notin SelectKeys =>
          /\ view.cultureCourse.name = Text("Chinese Culture I")
          /\ view.cultureCourse.credit = NumInt(3)
    /\ \E i \in DOMAIN CHINESE_CULTURE_OPTIONS :
          /\ view.cultureCourse.name = CHINESE_CULTURE_OPTIONS[i].label
          /\ view.cultureCourse.credit = CHINESE_CULTURE_OPTIONS[i].credit

C9_Step ==
    ClickAddMajorCourse =>
        /\ Len(semesters') = Len(semesters)
        /\ Len(ViewsOf(semesters')[activeIndex].allCourses)
              = Len(semesterViews[activeIndex].allCourses) + 1
        /\ \A j \in DOMAIN semesters :
              /\ semesters'[j].id = semesters[j].id
              /\ j # activeIndex =>
                    /\ semesters'[j] = semesters[j]
                    /\ ViewsOf(semesters')[j] = semesterViews[j]

\* C9: addMajorCourse on a semester makes that semester's list of course
\* records (allCourses) exactly one longer and leaves every other semester's
\* stored data, view and totals, and the order of the semesters, unchanged.
C9_AddMajorCourseFrame == [][C9_Step]_vars

\* a course just added to the second semester while the first holds an entry
C9_Witness ==
    /\ Len(semesters) = 2
    /\ recentlyAddedCourse # Null
    /\ recentlyAddedCourse.semesterId = semesters[2].id
    /\ Len(semesterViews[2].allCourses) = 5
    /\ semesterViews[1].totals.count = NumInt(1)

C10_Step ==
    addSemester =>
        /\ Len(semesters') = Len(semesters) + 1
        /\ SubSeq(semesters', 1, Len(semesters)) = semesters
        /\ semesters'[Len(semesters')].languageScores
              = [english |-> Chars(<<>>), german |-> Chars(<<>>)]
        /\ Len(semesters'[Len(semesters')].majorCourses) = 1
        /\ semesters'[Len(semesters')].majorCourses[1].name = Text("")
        /\ semesters'[Len(semesters')].majorCourses[1].score = Chars(<<>>)
        /\ semesters'[Len(semesters')].cultureCourse
              = [courseKey |-> Text("cc-1"), score |-> Chars(<<>>)]
        /\ activeSemesterId' = semesters'[Len(semesters')].id
        /\ activeIndex' = Len(semesters')

\* C10: addSemester appends one semester after the unchanged existing ones; the
\* new semester is blank (no language score, one blank major course, the first
\* catalog entry with no score) and is the active semester afterwards.
C10_AddSemesterAppendsBlankActive == [][C10_Step]_vars

\* a second, blank and active semester after a first one that holds an entry
C10_Witness ==
    /\ Len(semesters) = 2
    /\ activeIndex = 2
    /\ semesterViews[1].totals.count = NumInt(1)
    /\ semesterViews[2].totals.count = NumInt(0)
    /\ Len(semesters[2].majorCourses) = 1

\* C11: under the commands the page offers, every semester keeps at least one
\* major course: the delete button is disabled on a list of length 1, so
\* removeMajorCourse never empties a list.
C11_AtLeastOneMajorCourse ==
    \A i \in DOMAIN semesters : Len(semesters[i].majorCourses) >= 1

\* the first semester after its original course was deleted: one course is
\* left, and it is one that was added later
C11_Witness ==
    /\ Len(semesters[1].majorCourses) = 1
    /\ semesters[1].majorCourses[1].id # 2

C12_State ==
    /\ Len(semesters) >= 1
    /\ activeIndex \in DOMAIN semesters
    /\ activeIndex \in DOMAIN semesterViews
    /\ (\E i \in DOMAIN semesters : semesters[i].id = activeSemesterId)
          => /\ semesters[activeIndex].id = activeSemesterId
             /\ \A i \in 1 .. (activeIndex - 1) : semesters[i].id # activeSemesterId
    /\ (\A i \in DOMAIN semesters : semesters[i].id # activeSemesterId)
          => activeIndex = 1

C12_Step ==
    /\ Len(semesters') >= Len(semesters)
    /\ \A i \in DOMAIN semesters : semesters'[i].id = semesters[i].id

\* C12: the sequence of semesters is never empty and no step removes a semester;
\* the active index is a valid index: the position of the semester whose id is
\* activeSemesterId, or the first position when there is none.
C12_SemestersStayActiveIndexValid == [] C12_State /\ [][C12_Step]_vars

\* two semesters, the first one made active again by its tab
C12_Witness ==
    /\ Len(semesters) = 2
    /\ activeSemesterId = semesters[1].id
    /\ activeIndex = 1

\* the sum of the first n finite numbers of a sequence
RECURSIVE SumOfFirst(_, _)
SumOfFirst(terms, n) ==
    IF n = 0 THEN NumInt(0) ELSE JsAdd(SumOfFirst(terms, n - 1), terms[n])

\* the records of the first n views, one semester after the other
RECURSIVE RecordsOfFirst(_, _)
RecordsOfFirst(views, n) ==
    IF n = 0 THEN <<>> ELSE RecordsOfFirst(views, n - 1) \o views[n].allCourses

\* the cumulative panel has been rendered: every semester has four records or more
OverallRendered == courses # <<>>

\* C13: the cumulative totals are the aggregate of the concatenation of all
\* semesters' records in semester order: totalCredits and count are the sums of
\* the per-semester figures, and weightedScore is the credit-weighted mean of
\* all countable records of all semesters.
C13_CumulativeAggregatesAllRecords ==
    OverallRendered =>
        LET views == semesterViews
            all == RecordsOfFirst(views, Len(views))
            n == Len(all)
            credits == SumOverCountable([i \in 1 .. n |-> all[i].credit], all, n)
            points == SumOverCountable(
                          [i \in 1 .. n |-> JsMul(all[i].score, all[i].credit)], all, n)
        IN  /\ courses = all
            /\ totals = calculateTotals(all)
            /\ totals.totalCredits =
                   SumOfFirst([i \in DOMAIN views |-> views[i].totals.totalCredits],
                              Len(views))
            /\ totals.count =
                   SumOfFirst([i \in DOMAIN views |-> views[i].totals.count], Len(views))
            /\ credits.n = 0 => totals.weightedScore = Null
            /\ credits.n # 0 =>
                   totals.weightedScore = Num(points.n * credits.d, points.d * credits.n)

\* two semesters of different weight and different averages: the cumulative
\* average is not the mean of the two
C13_Witness ==
    /\ OverallRendered
    /\ Len(semesters) = 2
    /\ LET first == semesterViews[1].totals
           second == semesterViews[2].totals
       IN  /\ first.weightedScore # Null
           /\ second.weightedScore # Null
           /\ first.weightedScore # second.weightedScore
           /\ first.totalCredits # second.totalCredits
           /\ totals.weightedScore #
                  JsDiv(JsAdd(first.weightedScore, second.weightedScore), NumInt(2))

\* the averages of a result of calculateTotals, when not null, are in range
C14_AveragesInRange ==
    /\ totals.weightedScore # Null <=> totals.weightedGerman # Null
    /\ totals.weightedScore # Null =>
          /\ InRange(totals.weightedScore, 0, 100)
          /\ InRange(totals.weightedGerman, 1, 5)

C14_Gpa(g, target) ==
    /\ g = Null <=> totals.count = NumInt(0)
    /\ g # Null =>
          /\ InRange(g, 0, target)
          /\ g = Num(totals.weightedScore.n * target, totals.weightedScore.d * 100)

\* C14: non-null averages of calculateTotals lie in [0, 100] and [1, 5]; so the
\* clamp of gpaFromPercentage leaves the cumulative average as it is, the GPAs
\* lie in [0, 4] and [0, 5], and both are null exactly when the count is 0.
C14_CumulativeGpaInRange ==
    /\ C14_AveragesInRange
    /\ average = totals.weightedScore
    /\ average # Null => Clamped(average) = average
    /\ C14_Gpa(gpa.scale4, 4)
    /\ C14_Gpa(gpa.scale5, 5)

\* a rendered transcript with a score above 100 entered and another one counted
C14_Witness ==
    /\ OverallRendered
    /\ \E i \in DOMAIN courses : Above(courses[i].score, 100)
    /\ totals.count # NumInt(0)
    /\ gpa.scale4 # Null
    /\ gpa.scale5 # Null

====
